---- MODULE Spec2Model ----
(***************************************************************************)
(* State-machine model of the WebSampler front end:                        *)
(*   - Sample            (src/unnamed/part_000)                            *)
(*   - WaveformVisualizer (src/public/js/classes/WaveformVisualizer.js)    *)
(*   - SamplerGUI and the procedural SamplerEngine                         *)
(*                       (src/public/js/classes/SamplerGUI.js)             *)
(*                                                                         *)
(* Units.  Pixels are integers.  Times are integer milliseconds; every     *)
(* duration in Durations is a multiple of every width in Widths, so the    *)
(* code's (x / canvasWidth) * duration is an integer and PixelToTime is    *)
(* exact.  Gains are integer hundredths (0.8 is 80), the unit of the GUI's *)
(* percentage slider.                                                      *)
(*                                                                         *)
(* Host behaviour the code relies on (Web Audio, DOM events):              *)
(*   - a source that plays to its end stops sounding on the audio thread   *)
(*     and its "ended" event is queued to the event loop, where it runs    *)
(*     later, interleaved with the other handlers;                         *)
(*   - whether "ended" is also delivered for a source that was stop()ped   *)
(*     and disconnected differs between hosts: endedOnStop is chosen once, *)
(*     in Init;                                                            *)
(*   - start() with a negative duration throws before the source starts,   *)
(*     and stop() on a source that never started throws;                   *)
(*   - pointer offsets are relative to the canvas and are delivered while  *)
(*     the pointer is over it: they lie within MouseMargin pixels of       *)
(*     [0, canvasWidth].                                                   *)
(***************************************************************************)
EXTENDS Integers, FiniteSets, Sequences, TLC

\* ------------------------------------------------------------------ bounds
NumPads == 2
MaxVoices == 2
MaxBanks == 2
MouseMargin == 5
MaxFrames == 3

\* ------------------------------------------------------- program constants
DefaultCanvasWidth == 800
HitDistance == 10
GainScale == 100
InitialGain == 80

\* ------------------------------------------------------------ input sets
Widths == {400, 800, 1000}
Durations == {4000, 8000}
CandidateXs == {-5, 5, 200, 600, 795, 805, 1005}
FewXs == {-5, 200, 805}
DragXs == {5, 795}
LeftHandleXs == {5}
EdgeXs == {-5, 795}
ScenarioXs == {5, 200, 600, 795}
OneDuration == {4000}
Volumes == {-500, -1, 0, 37, 100, 101, 150}

\* Audio content, for the waveform renderer.  Amplitudes are in quarters of
\* full scale and even, so that halving one is exact as it is in binary
\* floating point; buffers have one or two channels.
Amplitudes == {-4, 0, 2}
PeakWidths == {1, 3, 4}
LongFrames == 20
SpikeFrames == {0, 1, 19}
ChannelData(n) == [1..n -> Amplitudes]
ShortBuffers ==
    UNION {   {[length |-> n, data |-> <<a>>] : a \in ChannelData(n)}
         \cup {[length |-> n, data |-> <<a, b>>] : a, b \in ChannelData(n)}
           : n \in 0..MaxFrames }
LongBuffers ==
    {[length |-> LongFrames,
      data |-> << [j \in 1..LongFrames |-> IF j = f + 1 THEN a ELSE 0] >>]
       : f \in SpikeFrames, a \in Amplitudes \ {0}}
Buffers == ShortBuffers \cup LongBuffers
NoBuffer == [length |-> 0, data |-> << >>]
NoPeaks == << >>
NoWaveform == [drawn |-> FALSE, maxPeak |-> 0, heights |-> << >>]

Pads == 0 .. (NumPads - 1)
PlayIndices == 0 .. NumPads
VoiceIds == 1 .. MaxVoices
Banks == 1 .. MaxBanks
ObjIds == Banks \X Pads
NoObj == <<0, 0>>
NoIndex == -1

Max(a, b) == IF a >= b THEN a ELSE b
Min(a, b) == IF a <= b THEN a ELSE b
Abs(a) == IF a >= 0 THEN a ELSE -a

VARIABLES
    canvasWidth,          \* waveformCanvas.width = trimbarCanvas.width
    endedOnStop,          \* host: "ended" is delivered after stop()+disconnect()
    bank,                 \* which bank engineState.samples holds (0: none)
    objs,                 \* the Sample objects ever constructed, by <<bank, index>>
    pending,              \* Sample objects whose load promise has not settled
    fetched,              \* host: how each entry's fetch + decode came out
    promises,             \* the samplePromise of each entry
    callbacks,            \* the progressCallback invocations, by entry
    calls,                \* the promise returned by each loadSamples call
    resolved,             \* the bank each loadSamples call returned (0: not yet)
    status,               \* main.js updateStatus: the status line
    activeSources,        \* engineState.activeSources: pad -> voice (0: no entry)
    voices,               \* the AudioBufferSourceNodes
    endedQueue,           \* voices whose "ended" event is queued, not yet run
    ctxState,             \* engineState.audioContext.state
    masterGain,           \* engineState.masterGain.gain.value, in hundredths
    trimbars,             \* visualizer.trimbars
    currentSample,        \* visualizer.currentSample (NoObj: null)
    selectedSampleIndex,  \* gui.selectedSampleIndex (NoIndex: null)
    buffer,               \* host: the decoded audio the renderer is given
    peaks,                \* visualizer.peaks (NoPeaks: null)
    waveform,             \* what drawWaveform last put on the waveform canvas
    animationId,          \* visualizer.animationId (0: null)
    frameRequests,        \* host: the animation frame requests not yet run
    overlay,              \* what is on the trimbar canvas
    trimbarChanges,       \* the samples onTrimbarChange got in the last handler
    ret                   \* the last call: its name, index, result, start window

platformVars == <<canvasWidth, endedOnStop>>
loadVars == <<bank, pending, fetched, promises, callbacks, calls, resolved, status>>
voiceVars == <<activeSources, voices, endedQueue, ctxState>>
visVars == <<trimbars, currentSample, selectedSampleIndex>>
renderVars == <<buffer, peaks, waveform>>
animVars == <<animationId, frameRequests, overlay>>
vars == <<canvasWidth, endedOnStop, bank, objs, pending, fetched, promises,
          callbacks, calls, resolved, status, activeSources, voices,
          endedQueue, ctxState, masterGain, trimbars, currentSample,
          selectedSampleIndex, buffer, peaks, waveform, animationId,
          frameRequests, overlay, trimbarChanges, ret>>

\* ------------------------------------------------------------------ Sample
NewSample ==
    [isLoaded |-> FALSE, duration |-> 0,
     leftX |-> 0, rightX |-> DefaultCanvasWidth, startTime |-> 0, endTime |-> 0]

\* the conversion with width and duration exchanged
PixelToTimeSwapped(x, width, duration) == (x * width) \div duration

PixelToTime(x, width, duration) == (x * duration) \div width

setBuffer(s, duration, width) ==
    [s EXCEPT !.isLoaded = TRUE, !.duration = duration,
              !.endTime = duration, !.rightX = width]

updateTrimbarPositions(s, leftX, rightX, width) ==
    IF ~s.isLoaded THEN s
    ELSE [s EXCEPT !.leftX = leftX, !.rightX = rightX,
                   !.startTime = PixelToTime(leftX, width, s.duration),
                   !.endTime = PixelToTime(rightX, width, s.duration)]

getSelectionDuration(s) == s.endTime - s.startTime

SampleResetTrimbars(s, width) ==
    IF ~s.isLoaded THEN s
    ELSE [s EXCEPT !.leftX = 0, !.rightX = width,
                   !.startTime = 0, !.endTime = s.duration]

\* ------------------------------------------------------------------ engine
\* engineState.samples[index]: the object of the current bank, or NoObj
SampleAt(index) ==
    IF bank > 0 /\ index \in Pads THEN <<bank, index>> ELSE NoObj

getSample(index) == SampleAt(index)

Playable(index) == SampleAt(index) # NoObj /\ objs[SampleAt(index)].isLoaded

getLoadedCount == Cardinality({i \in Pads : Playable(i)})

\* getLoadedCount() over the samples os of the bank b that engineState holds
LoadedCount(os, b) == Cardinality({i \in Pads : b > 0 /\ os[<<b, i>>].isLoaded})

\* the entries of the loadSamples call that created bank b
Entries(b) == {<<b, i>> : i \in Pads}

\* an entry's chain without its .catch: a failure rejects samplePromise
samplePromiseNoCatch(outcome) ==
    IF outcome = "failed" THEN "rejected" ELSE "fulfilled"

\* samplePromise once its chain has run: the .then handler returns the
\* sample, the .catch handler takes every rejection and returns the sample
samplePromise(outcome) == "fulfilled"

\* Promise.all over promises in the given states
PromiseAll(states) ==
    IF "rejected" \in states THEN "rejected"
    ELSE IF "pending" \in states THEN "pending"
    ELSE "fulfilled"

\* the callback invoked twice for the entry
progressCallbackTwice(cb, o, error) ==
    [cb EXCEPT ![o] = @ \o << [index |-> o[2], sample |-> o, error |-> error],
                              [index |-> o[2], sample |-> o, error |-> error] >>]

\* progressCallback(index, sample, error) recorded for the entry o
progressCallback(cb, o, error) ==
    [cb EXCEPT ![o] = Append(@, [index |-> o[2], sample |-> o, error |-> error])]

\* the catch handler wiping the whole bank
catchHandlerAborts(os, o) ==
    [p \in ObjIds |-> IF p[1] = o[1] THEN NewSample ELSE os[p]]

\* the catch handler marking its sample loaded
catchHandlerLoads(os, o) == [os EXCEPT ![o].isLoaded = TRUE]

\* the .catch handler of entry o: the Sample objects are left as they are
catchHandler(os, o) == os

\* updateStatus(message, type) of main.js; NoIndex: no count in the message
Status(kind, loaded, total) == [kind |-> kind, loaded |-> loaded, total |-> total]

\* the promises of the loadSamples calls once entry o has settled: the call
\* that made o's bank continues past its await when Promise.all has settled
AwaitAll(cs, ps, o) ==
    IF cs[o[1]] = "pending"
    THEN [cs EXCEPT ![o[1]] = PromiseAll({ps[e] : e \in Entries(o[1])})]
    ELSE cs

\* loadSamples, line 420: return engineState.samples, the bank b the engine
\* holds when the call continues past its await
ReturnSamples(cs, cs2, rs, b) ==
    [c \in Banks |-> IF cs[c] = "pending" /\ cs2[c] = "fulfilled" THEN b ELSE rs[c]]

\* the status line after entry o settled: the progress callback's line, then
\* loadPreset's line when the call settled with this entry
StatusAfter(cs, cs2, os, o, b) ==
    IF cs[o[1]] = "pending" /\ cs2[o[1]] = "fulfilled"
    THEN Status("ready", LoadedCount(os, b), NumPads)
    ELSE IF cs[o[1]] = "pending" /\ cs2[o[1]] = "rejected"
    THEN Status("error", NoIndex, NoIndex)
    ELSE Status("loading", LoadedCount(os, b), NumPads)

isPlaying(index) == index \in Pads /\ activeSources[index] # 0

FreeVoice == [pad |-> NoIndex, state |-> "free", connected |-> FALSE]

Sounding(vs, i) == {v \in VoiceIds : vs[v].state = "sounding" /\ vs[v].pad = i}

\* The engine's audio state as one value: E.active, E.voices, E.queue, E.ctx
EngineNow ==
    [active |-> activeSources, voices |-> voices, queue |-> endedQueue, ctx |-> ctxState]

\* try { source.stop(); source.disconnect(); } catch (e) {}
StopSource(E, v) ==
    IF E.voices[v].state = "unstarted"
    THEN E
    ELSE [E EXCEPT
            !.voices[v].state = IF @ = "sounding" THEN "stopped" ELSE @,
            !.voices[v].connected = FALSE,
            !.queue = IF E.voices[v].state = "sounding" /\ endedOnStop
                      THEN @ \cup {v} ELSE @]

\* stopSample with activeSources.clear() where the code has delete(index)
stopSampleClears(E, index) ==
    IF index \in Pads /\ E.active[index] # 0
    THEN [StopSource(E, E.active[index]) EXCEPT !.active = [i \in Pads |-> 0]]
    ELSE E

\* stopSample leaving alone a source that has already ended
stopSampleSkipsEnded(E, index) ==
    IF index \in Pads /\ E.active[index] # 0 /\ E.voices[E.active[index]].state # "ended"
    THEN [StopSource(E, E.active[index]) EXCEPT !.active[index] = 0]
    ELSE E

stopSample(E, index) ==
    IF index \in Pads /\ E.active[index] # 0
    THEN [StopSource(E, E.active[index]) EXCEPT !.active[index] = 0]
    ELSE E

RECURSIVE StopEach(_, _)
StopEach(E, todo) ==
    IF todo = {} THEN E
    ELSE LET v == CHOOSE x \in todo : \A y \in todo : x <= y
         IN StopEach(StopSource(E, v), todo \ {v})

\* stopAll without its loop: the mapping is cleared, no source is stopped
stopAllOnlyClears(E) == [E EXCEPT !.active = [i \in Pads |-> 0]]

stopAll(E) ==
    [StopEach(E, {E.active[i] : i \in Pads} \ {0}) EXCEPT !.active = [i \in Pads |-> 0]]

\* A voice nothing refers to any more, that neither sounds nor has an event
\* queued, is unobservable: its slot can hold the next source.
Unreferenced(E, v) ==
    /\ E.voices[v].state \in {"stopped", "ended"}
    /\ v \notin E.queue
    /\ \A i \in Pads : E.active[i] # v

Reclaim(E) ==
    [E EXCEPT !.voices = [v \in VoiceIds |->
                            IF Unreferenced(E, v) THEN FreeVoice ELSE E.voices[v]]]

FreeIds(E) == {v \in VoiceIds : E.voices[v].state = "free" \/ Unreferenced(E, v)}

\* createBufferSource(); connect(masterGain)
buildAudioGraph(E, v, index) ==
    [E EXCEPT !.voices[v] = [pad |-> index, state |-> "unstarted", connected |-> TRUE]]

\* bufferSource.start(0, startTime, duration); bufferSource.onended = ...
\* (start raises RangeError on a negative duration; onended is then never set)
StartSource(E, v, startTime, duration) ==
    IF duration < 0 THEN E ELSE [E EXCEPT !.voices[v].state = "sounding"]

\* the arguments playSample hands to bufferSource.start for the sample s
StartOffset(s) == s.startTime

\* the end time handed over as the duration: start(0, startTime, endTime)
StartDurationIsEnd(s) == s.endTime

StartDuration(s) == s.endTime - s.startTime

\* playSample past its guard, for a loaded sample s
\* the slot the next source takes (0: none left within MaxVoices)
NextVoiceId(E) ==
    IF FreeIds(E) = {} THEN 0
    ELSE CHOOSE x \in FreeIds(E) : \A y \in FreeIds(E) : x <= y

playLoaded(E, index, s) ==
    LET E1 == [E EXCEPT !.ctx = IF @ = "suspended" THEN "running" ELSE @]
        E2 == stopSample(E1, index)
        v  == NextVoiceId(E2)
        E3 == buildAudioGraph(E2, v, index)
        E4 == [E3 EXCEPT !.active[index] = v]
    IN IF v = 0 THEN E2
       ELSE StartSource(E4, v, StartOffset(s), StartDuration(s))

\* playSample with the guard !sample only, the isLoaded test left out
playSampleUnguarded(E, index) ==
    IF SampleAt(index) = NoObj THEN E ELSE playLoaded(E, index, objs[SampleAt(index)])

playSample(E, index) ==
    IF ~Playable(index) THEN E ELSE playLoaded(E, index, objs[SampleAt(index)])

playSampleResult(index) ==
    IF ~Playable(index) THEN "false"
    ELSE IF StartDuration(objs[SampleAt(index)]) < 0 THEN "throw"
    ELSE "true"

\* playSample needs a slot for the new source once the pad's old one is stopped
CanAllocate(index) ==
    ~Playable(index) \/ NextVoiceId(stopSample(EngineNow, index)) # 0

\* the clamp without its lower bound: Math.min(1, volume)
ClampAbove(volume) == Min(GainScale, volume)

Clamp01(volume) == Max(0, Min(GainScale, volume))

SetEngine(E) ==
    LET R == Reclaim(E)
    IN /\ activeSources' = R.active
       /\ voices' = R.voices
       /\ endedQueue' = R.queue
       /\ ctxState' = R.ctx

\* The last call or event: its name, its pad index (for mousemove the pointer
\* offset mousePos.x; NoIndex when it has none),
\* what it returned ("true" / "false" for playSample, "throw" when it raised,
\* "none" for a call without a result) and, when it reached
\* bufferSource.start(0, offset, dur), the window it handed over
Called(op, arg, val, offset, dur) ==
    ret' = [op |-> op, arg |-> arg, val |-> val, offset |-> offset, dur |-> dur]

Returned(op, arg, val) == Called(op, arg, val, 0, 0)

\* playSample(index) called as op
Triggered(op, index) ==
    IF Playable(index)
    THEN Called(op, index, playSampleResult(index),
                StartOffset(objs[SampleAt(index)]), StartDuration(objs[SampleAt(index)]))
    ELSE Returned(op, index, "false")

\* ------------------------------------------------------------- visualizer
Near(m, x) == Abs(m - x) < HitDistance

\* handleMouseMove, lines 288-304: the hover flags
HoverLeft(t, m) ==
    IF Near(m, t.left.x) /\ ~t.right.selected THEN TRUE
    ELSE IF ~t.left.dragged THEN FALSE
    ELSE t.left.selected

\* the right hover test without its look at the left flag
HoverRightAlone(t, m, leftSelected) ==
    IF Near(m, t.right.x) THEN TRUE
    ELSE IF ~t.right.dragged THEN FALSE
    ELSE t.right.selected

HoverRight(t, m, leftSelected) ==
    IF Near(m, t.right.x) /\ ~leftSelected THEN TRUE
    ELSE IF ~t.right.dragged THEN FALSE
    ELSE t.right.selected

DragLeftX(m, rightX) == Max(0, Min(m, rightX))

\* the right drag without its floor at the left marker: Math.min(maxX, mouseX)
DragRightXNoFloor(m, leftX, width) == Min(width, m)

DragRightX(m, leftX, width) == Min(width, Max(m, leftX))

\* the move that drags a marker as soon as its side is selected
MovedTrimbarsOnHover(t, m, width) ==
    LET ls == HoverLeft(t, m)
        rs == HoverRight(t, m, ls)
        lx == IF ls THEN DragLeftX(m, t.right.x) ELSE t.left.x
        rx == IF rs THEN DragRightX(m, lx, width) ELSE t.right.x
    IN [left  |-> [x |-> lx, selected |-> ls, dragged |-> t.left.dragged],
        right |-> [x |-> rx, selected |-> rs, dragged |-> t.right.dragged]]

\* handleMouseMove: the trimbars after a move to m
MovedTrimbars(t, m, width) ==
    LET ls == HoverLeft(t, m)
        rs == HoverRight(t, m, ls)
        lx == IF t.left.dragged THEN DragLeftX(m, t.right.x) ELSE t.left.x
        rx == IF t.right.dragged THEN DragRightX(m, lx, width) ELSE t.right.x
    IN [left  |-> [x |-> lx, selected |-> ls, dragged |-> t.left.dragged],
        right |-> [x |-> rx, selected |-> rs, dragged |-> t.right.dragged]]

\* notifyTrimbarChange without the update of the sample's trimbar state
notifyWithoutUpdate(os, cur, t, width) == os

\* notifyTrimbarChange: the Sample objects after the visualizer reports t
notifyTrimbarChange(os, cur, t, width) ==
    IF cur = NoObj THEN os
    ELSE [os EXCEPT ![cur] = updateTrimbarPositions(@, t.left.x, t.right.x, width)]

\* the callback called before the sample's times are recomputed
MoveChangesBeforeUpdate(t, m, os, cur, width) ==
    IF cur = NoObj THEN << >>
    ELSE (IF t.left.dragged THEN <<os[cur]>> ELSE << >>)
         \o (IF t.right.dragged THEN <<os[cur]>> ELSE << >>)

\* handleMouseMove, lines 311-323: the samples onTrimbarChange is called
\* with during a move to m, one call after the left marker is set and one
\* after the right marker is set
MoveChanges(t, m, os, cur, width) ==
    LET lx == IF t.left.dragged THEN DragLeftX(m, t.right.x) ELSE t.left.x
        rx == IF t.right.dragged THEN DragRightX(m, lx, width) ELSE t.right.x
        s1 == updateTrimbarPositions(os[cur], lx, t.right.x, width)
        s2 == updateTrimbarPositions(os[cur], lx, rx, width)
    IN IF cur = NoObj THEN << >>
       ELSE (IF t.left.dragged THEN <<s1>> ELSE << >>)
            \o (IF t.right.dragged THEN <<s2>> ELSE << >>)

\* notifyTrimbarChange: whether the onTrimbarChange callback runs
Notified(cur) == IF cur # NoObj THEN "changed" ELSE "none"

\* a press that starts a drag of both sides whatever is selected
handleMouseDownBoth(t) ==
    [t EXCEPT !.left.dragged = TRUE, !.right.dragged = TRUE]

\* handleMouseDown
handleMouseDown(t) ==
    [t EXCEPT !.left.dragged = IF t.left.selected THEN TRUE ELSE @,
              !.right.dragged = IF t.right.selected THEN TRUE ELSE @]

\* handleMouseUp (also the mouseleave listener)
handleMouseUp(t) ==
    [t EXCEPT !.left.dragged = FALSE, !.right.dragged = FALSE]

\* loadSample leaving the markers where the previous sample had them
loadSampleKeepsMarkers(t, s) == t

\* loadSample past its guard: the markers restored from the sample s
loadSample(t, s) ==
    [t EXCEPT !.left.x = s.leftX, !.right.x = s.rightX]

\* the right marker reset to the default width instead of the canvas width
ResetMarkersDefault(t, width) ==
    [t EXCEPT !.left.x = 0, !.right.x = DefaultCanvasWidth]

\* WaveformVisualizer.resetTrimbars past its guard: the markers
ResetMarkers(t, width) ==
    [t EXCEPT !.left.x = 0, !.right.x = width]

\* the trimbars one pointer event away from t: a move to one of xs, a
\* press, a release (the leave listener is the release handler)
PointerEvents(t, xs, width) ==
    {MovedTrimbars(t, m, width) : m \in xs} \cup {handleMouseDown(t), handleMouseUp(t)}

\* the trimbars that sequences of pointer events lead to from those of S
RECURSIVE PointerReach(_, _, _)
PointerReach(S, xs, width) ==
    LET N == S \cup UNION {PointerEvents(t, xs, width) : t \in S}
    IN IF N = S THEN S ELSE PointerReach(N, xs, width)

\* every offset the pointer can have over a canvas of the given width
AllPointerXs(width) == (0 - MouseMargin) .. (width + MouseMargin)

\* the pointer offsets of xs that can reach the canvas
PointerXs(xs) == {x \in xs : -MouseMargin <= x /\ x <= canvasWidth + MouseMargin}

\* ----------------------------------------------------------------- render
\* calculatePeaks, lines 110-114: the peak of one channel over the frames
\* j, j + sampleStep, ... below end and below the channel's length
RECURSIVE SegmentPeak(_, _, _, _, _)
SegmentPeak(channelData, j, end, sampleStep, peak) ==
    IF j < end /\ j < Len(channelData)
    THEN SegmentPeak(channelData, j + sampleStep, end, sampleStep,
                     Max(peak, Abs(channelData[j + 1])))
    ELSE peak

\* a channel's peak taken whole instead of shared out over the channels
ChannelShareWhole(peak, channels) == peak

\* peak / channels
ChannelShare(peak, channels) == peak \div channels

\* calculatePeaks, lines 103-127: the array after channels 1..c were added
RECURSIVE PeaksAfter(_, _, _, _, _)
PeaksAfter(c, buf, width, sampleSize, sampleStep) ==
    IF c = 0 THEN [i \in 1..width |-> 0]
    ELSE LET before == PeaksAfter(c - 1, buf, width, sampleSize, sampleStep)
             share(i) == ChannelShare(
                            SegmentPeak(buf.data[c], (i - 1) * sampleSize,
                                        (i - 1) * sampleSize + sampleSize, sampleStep, 0),
                            Len(buf.data))
         IN [i \in 1..width |-> IF c = 1 THEN share(i) ELSE before[i] + share(i)]

\* the segment size rounded down instead of up
calculatePeaksFloor(buf, width) ==
    LET sampleSize == buf.length \div width
        sampleStep == Max(1, sampleSize \div 10)
    IN PeaksAfter(Len(buf.data), buf, width, sampleSize, sampleStep)

calculatePeaks(buf, width) ==
    LET sampleSize == (buf.length + width - 1) \div width
        sampleStep == Max(1, sampleSize \div 10)
    IN PeaksAfter(Len(buf.data), buf, width, sampleSize, sampleStep)

\* drawWaveform, lines 146-149
RECURSIVE MaxPeak(_, _)
MaxPeak(pk, n) == IF n = 0 THEN 0 ELSE Max(MaxPeak(pk, n - 1), pk[n])

\* drawWaveform past its guard.  The heights are kept as fractions of half
\* the canvas height, peaks[i] * scale with scale = (height / 2) / maxPeak:
\* a denominator of 0 is the division by zero
drawWaveform(pk) ==
    LET maxPeak == MaxPeak(pk, Len(pk))
    IN [drawn |-> TRUE, maxPeak |-> maxPeak,
        heights |-> [i \in 1..Len(pk) |-> [num |-> pk[i], den |-> maxPeak]]]

\* -------------------------------------------------------------- animation
\* drawTrimbars: the overlay drawn from the markers t
drawTrimbars(t) ==
    [leftX |-> t.left.x, rightX |-> t.right.x,
     leftHot |-> t.left.selected, rightHot |-> t.right.selected]

\* clear(): the trimbar canvas wiped
NoOverlay == [leftX |-> NoIndex, rightX |-> NoIndex, leftHot |-> FALSE, rightHot |-> FALSE]

\* requestAnimationFrame: a handle that differs from the one just run
NextHandle(id) == IF id = 1 THEN 2 ELSE 1

\* stopAnimation forgetting the handle without cancelling the request
stopAnimationKeepsRequest(id, reqs) == [id |-> 0, reqs |-> reqs]

\* stopAnimation: cancelAnimationFrame(animationId), animationId = null
stopAnimation(id, reqs) ==
    IF id # 0 THEN [id |-> 0, reqs |-> reqs \ {id}] ELSE [id |-> id, reqs |-> reqs]

\* ------------------------------------------------------------------- Init
\* the state after construction, on a canvas of one of the widths and with
\* one of the buffers for the renderer
Start(widths, buffers) ==
    /\ canvasWidth \in widths
    /\ buffer \in buffers
    /\ peaks = NoPeaks
    /\ waveform = NoWaveform
    /\ animationId = 1
    /\ frameRequests = {1}
    /\ overlay = [leftX |-> 0, rightX |-> canvasWidth, leftHot |-> FALSE, rightHot |-> FALSE]
    /\ endedOnStop \in BOOLEAN
    /\ bank = 0
    /\ objs = [o \in ObjIds |-> NewSample]
    /\ pending = {}
    /\ fetched = [o \in ObjIds |-> "none"]
    /\ promises = [o \in ObjIds |-> "none"]
    /\ callbacks = [o \in ObjIds |-> << >>]
    /\ calls = [b \in Banks |-> "none"]
    /\ resolved = [b \in Banks |-> 0]
    /\ status = Status("idle", NoIndex, NoIndex)
    /\ activeSources = [i \in Pads |-> 0]
    /\ voices = [v \in VoiceIds |-> FreeVoice]
    /\ endedQueue = {}
    /\ ctxState \in {"suspended", "running"}
    /\ masterGain = InitialGain
    /\ trimbars = [left  |-> [x |-> 0, selected |-> FALSE, dragged |-> FALSE],
                   right |-> [x |-> canvasWidth, selected |-> FALSE, dragged |-> FALSE]]
    /\ currentSample = NoObj
    /\ selectedSampleIndex = NoIndex
    /\ trimbarChanges = << >>
    /\ ret = [op |-> "init", arg |-> NoIndex, val |-> "none", offset |-> 0, dur |-> 0]

Init == Start(Widths, {NoBuffer})

\* ---------------------------------------------------------------- actions
\* loadPreset and loadSamples up to its await: the status line, a new bank
\* of Sample objects, one fetch in flight for each
LoadSamples(limit) ==
    /\ bank < limit
    /\ bank' = bank + 1
    /\ pending' = pending \cup Entries(bank + 1)
    /\ promises' = [o \in ObjIds |-> IF o[1] = bank + 1 THEN "pending" ELSE promises[o]]
    /\ calls' = [calls EXCEPT ![bank + 1] = "pending"]
    /\ status' = Status("loading", NoIndex, NoIndex)
    /\ Returned("loadSamples", NoIndex, "none")
    /\ trimbarChanges' = << >>
    /\ UNCHANGED <<platformVars, renderVars, animVars, objs, fetched, callbacks, resolved, voiceVars,
                   masterGain, visVars>>

\* what follows the handler of entry o with the given outcome: samplePromise
\* settles and, when it was the last of its bank, Promise.all, loadSamples
\* and loadPreset continue in the same turn
Settle(o, outcome) ==
    /\ pending' = pending \ {o}
    /\ fetched' = [fetched EXCEPT ![o] = outcome]
    /\ promises' = [promises EXCEPT ![o] = samplePromise(outcome)]
    /\ calls' = AwaitAll(calls, promises', o)
    /\ resolved' = ReturnSamples(calls, calls', resolved, bank)
    /\ status' = StatusAfter(calls, calls', objs', o, bank)
    /\ trimbarChanges' = << >>
    /\ UNCHANGED <<platformVars, renderVars, animVars, bank, voiceVars, masterGain, visVars>>

\* fetch + decodeAudioData succeeded for o: sample.setBuffer(audioBuffer),
\* progressCallback(index, sample, null)
LoadSuccess(o, d) ==
    /\ o \in pending
    /\ objs' = [objs EXCEPT ![o] = setBuffer(@, d, DefaultCanvasWidth)]
    /\ callbacks' = progressCallback(callbacks, o, "null")
    /\ Settle(o, "decoded")
    /\ Returned("loadSuccess", o[2], "none")

\* fetch or decode failed for o: the catch handler,
\* progressCallback(index, sample, error)
LoadFailure(o) ==
    /\ o \in pending
    /\ objs' = catchHandler(objs, o)
    /\ callbacks' = progressCallback(callbacks, o, "error")
    /\ Settle(o, "failed")
    /\ Returned("loadFailure", o[2], "none")

PlaySample(index) ==
    /\ CanAllocate(index)
    /\ SetEngine(playSample(EngineNow, index))
    /\ Triggered("playSample", index)
    /\ trimbarChanges' = << >>
    /\ UNCHANGED <<platformVars, renderVars, animVars, loadVars, objs, masterGain, visVars>>

StopSample(index) ==
    /\ SetEngine(stopSample(EngineNow, index))
    /\ Returned("stopSample", index, "none")
    /\ trimbarChanges' = << >>
    /\ UNCHANGED <<platformVars, renderVars, animVars, loadVars, objs, masterGain, visVars>>

StopAll ==
    /\ SetEngine(stopAll(EngineNow))
    /\ Returned("stopAll", NoIndex, "none")
    /\ trimbarChanges' = << >>
    /\ UNCHANGED <<platformVars, renderVars, animVars, loadVars, objs, masterGain, visVars>>

\* audio thread: voice v plays to the end of its window; "ended" is queued
VoiceEnds(v) ==
    /\ voices[v].state = "sounding"
    /\ voices' = [voices EXCEPT ![v].state = "ended"]
    /\ endedQueue' = endedQueue \cup {v}
    /\ Returned("voiceEnds", voices[v].pad, "none")
    /\ trimbarChanges' = << >>
    /\ UNCHANGED <<platformVars, renderVars, animVars, loadVars, objs, activeSources, ctxState, masterGain, visVars>>

\* bufferSource.onended: engineState.activeSources.delete(index)
OnEnded(v) ==
    /\ v \in endedQueue
    /\ SetEngine([EngineNow EXCEPT !.active[voices[v].pad] = 0, !.queue = @ \ {v}])
    /\ Returned("onended", voices[v].pad, "none")
    /\ trimbarChanges' = << >>
    /\ UNCHANGED <<platformVars, renderVars, animVars, loadVars, objs, masterGain, visVars>>

SetMasterVolume(volume) ==
    /\ masterGain' = Clamp01(volume)
    /\ Returned("setMasterVolume", NoIndex, "none")
    /\ trimbarChanges' = << >>
    /\ UNCHANGED <<platformVars, renderVars, animVars, loadVars, objs, voiceVars, visVars>>

\* SamplerGUI.setMasterVolume(percent): engine.setMasterVolume(percent / 100)
GuiSetMasterVolume(percent) ==
    /\ masterGain' = Clamp01((percent * GainScale) \div 100)
    /\ Returned("guiSetMasterVolume", NoIndex, "none")
    /\ trimbarChanges' = << >>
    /\ UNCHANGED <<platformVars, renderVars, animVars, loadVars, objs, voiceVars, visVars>>

\* SamplerGUI.selectPad(index)
SelectPad(index) ==
    /\ IF Playable(index)
       THEN /\ selectedSampleIndex' = index
            /\ currentSample' = getSample(index)
            /\ trimbars' = loadSample(trimbars, objs[getSample(index)])
       ELSE UNCHANGED <<selectedSampleIndex, currentSample, trimbars>>
    /\ Returned("selectPad", index, "none")
    /\ trimbarChanges' = << >>
    /\ UNCHANGED <<platformVars, renderVars, animVars, loadVars, objs, voiceVars, masterGain>>

\* SamplerGUI.handlePadClick(index): play, then select when it played
HandlePadClick(index) ==
    /\ CanAllocate(index)
    /\ SetEngine(playSample(EngineNow, index))
    /\ IF playSampleResult(index) = "true"
       THEN /\ selectedSampleIndex' = index
            /\ currentSample' = getSample(index)
            /\ trimbars' = loadSample(trimbars, objs[getSample(index)])
       ELSE UNCHANGED <<selectedSampleIndex, currentSample, trimbars>>
    /\ Triggered("handlePadClick", index)
    /\ trimbarChanges' = << >>
    /\ UNCHANGED <<platformVars, renderVars, animVars, loadVars, objs, masterGain>>

\* the mousemove listener: mousePos.x = m; handleMouseMove().  mousePos is
\* written here and read by handleMouseMove alone: ret.arg keeps m
MouseMove(m) ==
    /\ trimbars' = MovedTrimbars(trimbars, m, canvasWidth)
    /\ objs' = IF trimbars.left.dragged \/ trimbars.right.dragged
               THEN notifyTrimbarChange(objs, currentSample, trimbars', canvasWidth)
               ELSE objs
    /\ Returned("mousemove", m,
                IF trimbars.left.dragged \/ trimbars.right.dragged
                THEN Notified(currentSample) ELSE "none")
    /\ trimbarChanges' = MoveChanges(trimbars, m, objs, currentSample, canvasWidth)
    /\ UNCHANGED <<platformVars, renderVars, animVars, loadVars, voiceVars, masterGain, currentSample,
                   selectedSampleIndex>>

MouseDown ==
    /\ trimbars' = handleMouseDown(trimbars)
    /\ Returned("mousedown", NoIndex, "none")
    /\ trimbarChanges' = << >>
    /\ UNCHANGED <<platformVars, renderVars, animVars, loadVars, objs, voiceVars, masterGain,
                   currentSample, selectedSampleIndex>>

MouseUp ==
    /\ trimbars' = handleMouseUp(trimbars)
    /\ Returned("mouseup", NoIndex, "none")
    /\ trimbarChanges' = << >>
    /\ UNCHANGED <<platformVars, renderVars, animVars, loadVars, objs, voiceVars, masterGain,
                   currentSample, selectedSampleIndex>>

MouseLeave ==
    /\ trimbars' = handleMouseUp(trimbars)
    /\ Returned("mouseleave", NoIndex, "none")
    /\ trimbarChanges' = << >>
    /\ UNCHANGED <<platformVars, renderVars, animVars, loadVars, objs, voiceVars, masterGain,
                   currentSample, selectedSampleIndex>>

\* SamplerGUI.resetTrimbars(): the reset button
ResetTrimbars ==
    /\ IF selectedSampleIndex # NoIndex /\ currentSample # NoObj
       THEN /\ trimbars' = ResetMarkers(trimbars, canvasWidth)
            /\ objs' = notifyTrimbarChange(
                          [objs EXCEPT ![currentSample] = SampleResetTrimbars(@, canvasWidth)],
                          currentSample, trimbars', canvasWidth)
       ELSE UNCHANGED <<trimbars, objs>>
    /\ Returned("resetTrimbars", NoIndex,
                IF selectedSampleIndex # NoIndex THEN Notified(currentSample) ELSE "none")
    /\ trimbarChanges' = IF selectedSampleIndex # NoIndex /\ currentSample # NoObj
                         THEN <<objs'[currentSample]>> ELSE << >>
    /\ UNCHANGED <<platformVars, renderVars, animVars, loadVars, voiceVars, masterGain,
                   currentSample, selectedSampleIndex>>

\* WaveformVisualizer.loadSample, lines 79 and 86, for a sample whose buffer
\* is the given one: calculatePeaks(sample.buffer), drawWaveform()
RenderSample ==
    /\ peaks' = calculatePeaks(buffer, canvasWidth)
    /\ waveform' = drawWaveform(peaks')
    /\ Returned("render", NoIndex, "none")
    /\ trimbarChanges' = << >>
    /\ UNCHANGED <<platformVars, buffer, animVars, loadVars, objs, voiceVars,
                   masterGain, visVars>>

\* a display refresh: the requested frame callback runs animate(), which
\* draws the overlay and requests the next frame
Tick ==
    /\ IF frameRequests # {}
       THEN LET h == NextHandle(CHOOSE r \in frameRequests : TRUE)
            IN /\ overlay' = drawTrimbars(trimbars)
               /\ animationId' = h
               /\ frameRequests' = {h}
               /\ Returned("tick", NoIndex, "drawn")
       ELSE /\ UNCHANGED animVars
            /\ Returned("tick", NoIndex, "none")
    /\ trimbarChanges' = << >>
    /\ UNCHANGED <<platformVars, renderVars, loadVars, objs, voiceVars, masterGain, visVars>>

\* WaveformVisualizer.destroy(): stopAnimation(), clear()
Destroy ==
    /\ animationId' = stopAnimation(animationId, frameRequests).id
    /\ frameRequests' = stopAnimation(animationId, frameRequests).reqs
    /\ overlay' = NoOverlay
    /\ currentSample' = NoObj
    /\ peaks' = NoPeaks
    /\ waveform' = NoWaveform
    /\ Returned("destroy", NoIndex, "none")
    /\ trimbarChanges' = << >>
    /\ UNCHANGED <<platformVars, buffer, loadVars, objs, voiceVars, masterGain,
                   trimbars, selectedSampleIndex>>

AnimStep == Tick \/ Destroy

LoadStep(limit, durations) ==
    \/ LoadSamples(limit)
    \/ \E o \in ObjIds, d \in durations : LoadSuccess(o, d)
    \/ \E o \in ObjIds : LoadFailure(o)

VoiceStep ==
    \/ \E i \in PlayIndices : PlaySample(i)
    \/ \E i \in PlayIndices : StopSample(i)
    \/ StopAll
    \/ \E v \in VoiceIds : VoiceEnds(v)
    \/ \E v \in VoiceIds : OnEnded(v)

VolumeStep ==
    \/ \E x \in Volumes : SetMasterVolume(x)
    \/ \E x \in Volumes : GuiSetMasterVolume(x)

PadStep ==
    \/ \E i \in PlayIndices : SelectPad(i)
    \/ \E i \in PlayIndices : HandlePadClick(i)

TrimStep(xs) ==
    \/ \E m \in PointerXs(xs) : MouseMove(m)
    \/ MouseDown
    \/ MouseUp
    \/ MouseLeave
    \/ ResetTrimbars

Next ==
    \/ LoadStep(MaxBanks, Durations)
    \/ VoiceStep
    \/ VolumeStep
    \/ PadStep
    \/ TrimStep(CandidateXs)
    \/ RenderSample
    \/ AnimStep

Spec == Init /\ [][Next]_vars

\* The voice manager alone: one bank, the canvas at its default width
InitVoice == Init /\ canvasWidth = DefaultCanvasWidth

NextVoice == LoadStep(1, OneDuration) \/ VoiceStep

SpecVoice == InitVoice /\ [][NextVoice]_vars

\* The waveform editor alone: one bank, every canvas width, no voices
InitTrim == Init /\ ~endedOnStop /\ ctxState = "suspended"

\* Triggers and the editor together: the canvas at its default width, pad
\* clicks, the pointer and the reset button
InitSampler == InitVoice /\ ~endedOnStop /\ ctxState = "suspended"

NextSampler ==
    \/ LoadStep(1, OneDuration)
    \/ \E i \in PlayIndices : HandlePadClick(i)
    \/ TrimStep(DragXs)

SpecSampler == InitSampler /\ [][NextSampler]_vars

\* One editing session on the default canvas: a bank of 4.0 s samples, pad
\* selection and the pointer at the marker handles and at pixels 200 and 600
NextScenario ==
    \/ LoadStep(1, OneDuration)
    \/ \E i \in PlayIndices : SelectPad(i)
    \/ TrimStep(ScenarioXs)

SpecScenario == InitSampler /\ [][NextScenario]_vars

\* Loading: presets loaded one over the other, their entries settling in
\* any order, and triggers meanwhile
NextLoad ==
    \/ LoadStep(2, OneDuration)
    \/ \E i \in PlayIndices : PlaySample(i)

SpecLoad == InitSampler /\ [][NextLoad]_vars

NextTrim ==
    \/ LoadStep(1, OneDuration)
    \/ \E i \in PlayIndices : SelectPad(i)
    \/ TrimStep(FewXs)

SpecTrim == InitTrim /\ [][NextTrim]_vars

\* The master gain: one bank, triggers and the two volume setters
NextVolume ==
    \/ LoadStep(1, OneDuration)
    \/ \E i \in PlayIndices : PlaySample(i)
    \/ StopAll
    \/ VolumeStep

InitVolume == InitVoice /\ ~endedOnStop

SpecVolume == InitVolume /\ [][NextVolume]_vars

\* The waveform renderer alone, on narrow canvases and small buffers
InitPeaks == Start(PeakWidths, Buffers) /\ ~endedOnStop /\ ctxState = "suspended"

NextPeaks == RenderSample

SpecPeaks == InitPeaks /\ [][NextPeaks]_vars

\* The overlay animation: the default canvas, the pointer, display
\* refreshes and teardown
NextAnim == TrimStep(DragXs) \/ AnimStep

SpecAnim == InitSampler /\ [][NextAnim]_vars

\* Preset replacement in the editor: a second bank loaded over the first,
\* pad selection and the pointer
NextBank ==
    \/ LoadStep(2, OneDuration)
    \/ \E i \in PlayIndices : SelectPad(i)
    \/ TrimStep(LeftHandleXs)

SpecBank == InitSampler /\ [][NextBank]_vars

\* The editor with the pointer at the two edges of the default canvas
NextEdge ==
    \/ LoadStep(1, OneDuration)
    \/ \E i \in PlayIndices : SelectPad(i)
    \/ TrimStep(EdgeXs)

SpecEdge == InitSampler /\ [][NextEdge]_vars

\* ------------------------------------------------------------------ claims

\* C1: at any instant at most one voice per pad index is sounding.
C1_OneSoundingVoicePerPad ==
    \A i \in Pads : Cardinality(Sounding(voices, i)) <= 1

\* C2: playSample(index) on an index without a loaded sample returns false and
\* leaves the active-voice mapping, every voice, the audio context state and
\* the master gain unchanged; on a loaded pad it returns true.
C2_InvalidTriggerHasNoEffect ==
    [][\A i \in PlayIndices :
         (ret'.op = "playSample" /\ ret'.arg = i) =>
            IF Playable(i)
            THEN ret'.val = "true"
            ELSE /\ ret'.val = "false"
                 /\ UNCHANGED <<activeSources, voices, endedQueue, ctxState, masterGain>>]_vars

\* C2 witness: a trigger on an unloaded pad of the bank has returned false
\* while another pad's voice is sounding.
C2_Witness ==
    /\ ret.op = "playSample" /\ ret.val = "false"
    /\ ret.arg \in Pads /\ bank > 0 /\ ~Playable(ret.arg)
    /\ \E v \in VoiceIds : voices[v].state = "sounding"

\* C3: stopSample(index) never raises; on a pad without an active voice it
\* leaves the mapping unchanged; a second call in a row changes nothing; the
\* entries and voices of other pads are untouched.
C3_StopSampleIdempotent ==
    [][\A i \in PlayIndices :
         (ret'.op = "stopSample" /\ ret'.arg = i) =>
            /\ ret'.val # "throw"
            /\ ~isPlaying(i) => activeSources' = activeSources
            /\ \A j \in Pads \ {i} : activeSources'[j] = activeSources[j]
            /\ \A v \in VoiceIds : voices[v].pad # i => voices'[v] = voices[v]
            /\ (ret.op = "stopSample" /\ ret.arg = i) => UNCHANGED voiceVars
            /\ stopSample(stopSample(EngineNow, i), i) = stopSample(EngineNow, i)]_vars

\* C3 witness: stopSample has run on a pad that now has no entry while the
\* other pad's voice is still mapped and sounding.
C3_Witness ==
    /\ ret.op = "stopSample" /\ ret.arg \in Pads /\ activeSources[ret.arg] = 0
    /\ \E j \in Pads \ {ret.arg} :
          activeSources[j] # 0 /\ voices[activeSources[j]].state = "sounding"

\* C4: after stopAll() the mapping is empty and every voice that was in it
\* is neither sounding nor connected, also when some had ended naturally.
C4_StopAllStopsEveryMappedVoice ==
    [][ret'.op = "stopAll" =>
         /\ \A i \in Pads : activeSources'[i] = 0
         /\ \A i \in Pads : activeSources[i] # 0 =>
               /\ voices'[activeSources[i]].state # "sounding"
               /\ ~voices'[activeSources[i]].connected]_vars

\* C4 witness: stopAll has run on a mapping that held a sounding voice on
\* one pad and a naturally ended voice, its event still queued, on the other.
C4_Witness ==
    /\ ret.op = "stopAll" /\ endedOnStop
    /\ \A i \in Pads : activeSources[i] = 0
    /\ \E v, w \in endedQueue :
          /\ voices[v].state = "ended" /\ voices[w].state = "stopped"
          /\ voices[v].pad # voices[w].pad
          /\ Cardinality(endedQueue) = 2

\* C5: the master gain is always in [0, 1]; setMasterVolume(v) stores 0 for
\* v < 0, 1 for v > 1 and v otherwise, at once; the GUI's percentage setter
\* stores the clamped percentage.
C5_MasterGainClamped ==
    /\ [](masterGain \in 0 .. GainScale)
    /\ [][\A x \in Volumes :
            (SetMasterVolume(x) \/ GuiSetMasterVolume(x)) =>
               masterGain' = (IF x < 0 THEN 0 ELSE IF x > GainScale THEN GainScale ELSE x)]_vars

\* C5 witness: a setter has clamped while a voice plays through the gain:
\* the gain is at a bound.
C5_Witness ==
    /\ ret.op \in {"setMasterVolume", "guiSetMasterVolume"}
    /\ masterGain \in {0, GainScale}
    /\ \E v \in VoiceIds : voices[v].state = "sounding" /\ voices[v].connected

\* C6: every successful trigger hands bufferSource.start the sample's
\* startSeconds and endSeconds - startSeconds as they are at that moment, so
\* a trigger after a drag or a reset plays the updated window.
C6_TriggerUsesCurrentWindow ==
    [][\A i \in Pads :
         (ret'.op \in {"playSample", "handlePadClick"} /\ ret'.arg = i /\ ret'.val = "true") =>
            /\ ret'.offset = objs[SampleAt(i)].startTime
            /\ ret'.dur = objs[SampleAt(i)].endTime - objs[SampleAt(i)].startTime]_vars

\* C6 witness: a pad whose two markers were both dragged inwards has been
\* triggered with the trimmed window.
C6_Witness ==
    /\ ret.op = "handlePadClick" /\ ret.val = "true"
    /\ ret.offset > 0
    /\ ret.offset + ret.dur < objs[SampleAt(ret.arg)].duration
    /\ ret.offset = objs[SampleAt(ret.arg)].startTime

\* C7: the visualizer's markers and every loaded sample's stored pixels
\* satisfy 0 <= leftPixel <= rightPixel <= canvasWidth, for any canvas width.
C7_PixelsWithinCanvas ==
    /\ 0 <= trimbars.left.x /\ trimbars.left.x <= trimbars.right.x
    /\ trimbars.right.x <= canvasWidth
    /\ \A o \in ObjIds : objs[o].isLoaded =>
          /\ 0 <= objs[o].leftX /\ objs[o].leftX <= objs[o].rightX
          /\ objs[o].rightX <= canvasWidth

\* C8: every loaded sample satisfies
\* 0 <= startSeconds <= endSeconds <= durationSeconds, for any canvas width.
C8_TimesWithinDuration ==
    \A o \in ObjIds : objs[o].isLoaded =>
        /\ 0 <= objs[o].startTime /\ objs[o].startTime <= objs[o].endTime
        /\ objs[o].endTime <= objs[o].duration

\* C9: for every loaded sample, startSeconds = leftPixel / canvasWidth *
\* duration and endSeconds = rightPixel / canvasWidth * duration.
C9_PixelsAndTimesAgree ==
    \A o \in ObjIds : objs[o].isLoaded =>
        /\ objs[o].startTime = PixelToTime(objs[o].leftX, canvasWidth, objs[o].duration)
        /\ objs[o].endTime = PixelToTime(objs[o].rightX, canvasWidth, objs[o].duration)

Clamp(x, lo, hi) == IF x < lo THEN lo ELSE IF x > hi THEN hi ELSE x

\* C10: a pointer move while the left side is dragged sets the left marker
\* to clamp(mouseX, 0, right); while the right side is dragged it sets the
\* right marker to clamp(mouseX, left, canvasWidth); afterwards the left
\* marker is not to the right of the right marker.
C10_DragClamps ==
    [][ret'.op = "mousemove" =>
         /\ trimbars.left.dragged =>
               /\ trimbars'.left.x = Clamp(ret'.arg, 0, trimbars.right.x)
               /\ trimbars'.left.x <= trimbars'.right.x
         /\ trimbars.right.dragged =>
               /\ trimbars'.right.x = Clamp(ret'.arg, trimbars.left.x, canvasWidth)
               /\ trimbars'.left.x <= trimbars'.right.x]_vars

\* C10 witness: with a sample shown, the dragged left marker was pulled
\* past the right marker and stands on it.
C10_Witness ==
    /\ ret.op = "mousemove" /\ currentSample # NoObj
    /\ trimbars.left.dragged
    /\ ret.arg > trimbars.right.x
    /\ trimbars.left.x = trimbars.right.x

\* C11: reset with a sample visualized always leaves the markers at 0 and
\* canvasWidth and that sample at leftX = 0, rightX = canvasWidth,
\* startTime = 0, endTime = duration, whatever the markers and the hover and
\* drag flags were, and runs the change callback.
C11_ResetYieldsFullClip ==
    [][(ret'.op = "resetTrimbars" /\ currentSample # NoObj) =>
         /\ trimbars'.left.x = 0 /\ trimbars'.right.x = canvasWidth
         /\ objs'[currentSample].leftX = 0
         /\ objs'[currentSample].rightX = canvasWidth
         /\ objs'[currentSample].startTime = 0
         /\ objs'[currentSample].endTime = objs[currentSample].duration
         /\ ret'.val = "changed"]_vars

\* C11 witness: a reset made in the middle of a drag of the left marker, on
\* a canvas that is not 800 px wide.
C11_Witness ==
    /\ ret.op = "resetTrimbars" /\ ret.val = "changed"
    /\ currentSample # NoObj /\ canvasWidth # DefaultCanvasWidth
    /\ trimbars.left.dragged
    /\ trimbars.left.x = 0 /\ trimbars.right.x = canvasWidth
    /\ objs[currentSample].endTime = objs[currentSample].duration

\* C12: when a sample finishes decoding its trim region is the full clip in
\* the shared canvas width: leftX = 0, rightX = canvasWidth, startTime = 0,
\* endTime = duration.
C12_LoadUsesCanvasWidth ==
    [][\A o \in ObjIds :
         (~objs[o].isLoaded /\ objs'[o].isLoaded) =>
            /\ objs'[o].leftX = 0
            /\ objs'[o].rightX = canvasWidth
            /\ objs'[o].startTime = 0
            /\ objs'[o].endTime = objs'[o].duration]_vars

\* C13: on an 800 px canvas with a loaded 4.0 s sample visualized, once the
\* left marker has been dragged to pixel 200 and the right marker to pixel
\* 600 the sample has startTime = 1.0 s, endTime = 3.0 s and
\* getSelectionDuration() = 2.0 s.
C13_DragScenario ==
    ( /\ canvasWidth = 800 /\ currentSample # NoObj
      /\ objs[currentSample].duration = 4000
      /\ trimbars.left.x = 200 /\ trimbars.right.x = 600 ) =>
        /\ objs[currentSample].leftX = 200 /\ objs[currentSample].rightX = 600
        /\ objs[currentSample].startTime = 1000
        /\ objs[currentSample].endTime = 3000
        /\ getSelectionDuration(objs[currentSample]) = 2000

\* C13 witness: the right marker has just been released at pixel 600 with the
\* left marker at pixel 200.
C13_Witness ==
    /\ ret.op = "mouseup" /\ canvasWidth = 800 /\ currentSample # NoObj
    /\ objs[currentSample].isLoaded /\ objs[currentSample].duration = 4000
    /\ trimbars.left.x = 200 /\ trimbars.right.x = 600
    /\ trimbars.right.selected /\ ~trimbars.right.dragged
    /\ objs[currentSample].startTime = 1000 /\ objs[currentSample].endTime = 3000

\* C14: a loadSamples call never rejects; its promise is fulfilled exactly
\* when every entry of its bank has settled; exactly the entries whose fetch
\* and decode succeeded are marked loaded; and once the call for the bank
\* the engine holds has resolved, getLoadedCount() is the number of
\* successes.
C14_LoadNeverRejects ==
    \A b \in Banks :
        /\ calls[b] # "rejected"
        /\ calls[b] = "fulfilled" <=>
              (b <= bank /\ \A o \in Entries(b) : fetched[o] # "none")
        /\ \A o \in Entries(b) : objs[o].isLoaded <=> fetched[o] = "decoded"
        /\ (b = bank /\ calls[b] = "fulfilled") =>
              getLoadedCount = Cardinality({o \in Entries(b) : fetched[o] = "decoded"})

\* C14 witness: the call for the current bank has resolved with its first
\* entry failed and another decoded, one sample loaded.
C14_Witness ==
    /\ bank > 0 /\ calls[bank] = "fulfilled"
    /\ fetched[<<bank, 0>>] = "failed"
    /\ \E i \in Pads : fetched[<<bank, i>>] = "decoded"
    /\ getLoadedCount = NumPads - 1
    /\ status = Status("ready", NumPads - 1, NumPads)

\* C15: the entries of a bank settle independently and in any order: the
\* step that settles one entry leaves every other entry as it was, the entry
\* is loaded exactly when its own fetch and decode succeeded, and a decoded
\* entry of the current bank is playable whatever the others are doing.
C15_EntriesSettleIndependently ==
    [][\A o \in ObjIds :
         (promises[o] = "pending" /\ promises'[o] # "pending") =>
            /\ \A q \in ObjIds \ {o} :
                  /\ objs'[q] = objs[q]
                  /\ promises'[q] = promises[q]
                  /\ fetched'[q] = fetched[q]
            /\ objs'[o].isLoaded <=> fetched'[o] = "decoded"
            /\ (fetched'[o] = "decoded" /\ o[1] = bank) => Playable(o[2])']_vars

\* C15 witness: the second pad was decoded and has been triggered while the
\* first entry of the same bank is still in flight.
C15_Witness ==
    /\ ret.op = "playSample" /\ ret.val = "true" /\ ret.arg = 1
    /\ <<bank, 0>> \in pending
    /\ fetched[<<bank, 1>>] = "decoded"
    /\ activeSources[1] # 0

\* C16: the progress callback has run for no entry that is still in flight
\* and exactly once for every settled entry, with that entry's index and
\* sample and with error = null exactly when the sample is marked loaded.
C16_ProgressCallbackOncePerEntry ==
    \A o \in ObjIds :
        IF promises[o] \in {"none", "pending"}
        THEN callbacks[o] = << >>
        ELSE /\ Len(callbacks[o]) = 1
             /\ callbacks[o][1].index = o[2]
             /\ callbacks[o][1].sample = o
             /\ callbacks[o][1].error = "null" <=> objs[o].isLoaded

\* C16 witness: a bank of which one entry was reported with an error, one
\* with null, and none is in flight.
C16_Witness ==
    /\ bank > 0 /\ Entries(bank) \cap pending = {}
    /\ \E o, q \in Entries(bank) :
          /\ callbacks[o] = << [index |-> o[2], sample |-> o, error |-> "error"] >>
          /\ callbacks[q] = << [index |-> q[2], sample |-> q, error |-> "null"] >>
          /\ ~objs[o].isLoaded /\ objs[q].isLoaded

\* C17: every sample starts not loaded; isLoaded turns true only in the step
\* in which that sample's decode succeeded, never turns back to false, and
\* a sample whose load failed is never loaded afterwards.
C17_LoadedOnceForGood ==
    /\ \A o \in ObjIds : ~objs[o].isLoaded
    /\ [][\A o \in ObjIds :
            /\ objs[o].isLoaded => objs'[o].isLoaded
            /\ (~objs[o].isLoaded /\ objs'[o].isLoaded) =>
                  (promises[o] = "pending" /\ fetched'[o] = "decoded")
            /\ fetched[o] = "failed" => ~objs'[o].isLoaded]_vars

\* C17 witness: after a trigger of a loaded pad, a sample of the same bank
\* whose load failed is still not loaded.
C17_Witness ==
    /\ ret.op = "playSample" /\ ret.val = "true"
    /\ \E o, q \in Entries(bank) :
          /\ fetched[o] = "failed" /\ ~objs[o].isLoaded
          /\ fetched[q] = "decoded" /\ objs[q].isLoaded

\* C18: in every reachable state at most one side is dragged, and a dragged
\* side is selected.
C18_OneDragAndDraggedIsSelected ==
    /\ ~(trimbars.left.dragged /\ trimbars.right.dragged)
    /\ trimbars.left.dragged => trimbars.left.selected
    /\ trimbars.right.dragged => trimbars.right.selected

\* C18 witness: the right side is being dragged and has been pulled onto the
\* left marker, so the pointer is within reach of both markers.
C18_Witness ==
    /\ ret.op = "mousemove" /\ currentSample # NoObj
    /\ trimbars.right.dragged /\ trimbars.right.selected
    /\ ~trimbars.left.dragged /\ ~trimbars.left.selected
    /\ trimbars.left.x = trimbars.right.x
    /\ Near(ret.arg, trimbars.left.x)

\* C19: once calculatePeaks has run, peaks has exactly canvasWidth entries,
\* each of them non-negative and no greater than the largest absolute sample
\* value of the buffer (so all zero for an all-zero buffer), and it is the
\* value that the buffer and the width determine, also when the buffer has
\* fewer frames than the canvas has pixels.
C19_PeaksWithinBuffer ==
    ret.op = "render" =>
        /\ Len(peaks) = canvasWidth
        /\ \A i \in 1..canvasWidth :
              /\ peaks[i] >= 0
              /\ \/ peaks[i] = 0
                 \/ \E c \in 1..Len(buffer.data), j \in 1..buffer.length :
                       peaks[i] <= Abs(buffer.data[c][j])
              /\ (\A c \in 1..Len(buffer.data), j \in 1..buffer.length :
                      buffer.data[c][j] = 0) => peaks[i] = 0
        /\ peaks = calculatePeaks(buffer, canvasWidth)

\* C19 witness: a two-channel buffer with fewer frames than the canvas has
\* pixels and unequal channels was reduced: a non-zero peak, and zero past
\* the end of the buffer.
C19_Witness ==
    /\ ret.op = "render"
    /\ Len(buffer.data) = 2 /\ buffer.data[1] # buffer.data[2]
    /\ 0 < buffer.length /\ buffer.length < canvasWidth
    /\ Len(peaks) = canvasWidth
    /\ peaks[1] = 3 /\ peaks[canvasWidth] = 0

\* C20: drawWaveform skips drawing when the maximum peak is zero and never
\* divides by zero.
C20_DrawGuardsZeroPeak ==
    waveform.drawn =>
        /\ waveform.maxPeak # 0
        /\ \A i \in 1..Len(waveform.heights) : waveform.heights[i].den # 0

\* C21: from construction a frame is always requested and every display
\* refresh redraws the overlay from the markers as they are and requests the
\* next frame, until destroy(); destroy() leaves no request behind, and from
\* then on no refresh draws anything and no frame is requested again.
C21_RedrawEveryTickUntilDestroy ==
    /\ animationId # 0 /\ frameRequests = {animationId}
    /\ [][/\ (ret'.op = "tick" /\ animationId # 0) =>
               /\ overlay' = drawTrimbars(trimbars)
               /\ ret'.val = "drawn"
               /\ animationId' # 0 /\ frameRequests' = {animationId'}
          /\ (animationId # 0 /\ animationId' = 0) => ret'.op = "destroy"
          /\ ret'.op = "destroy" => (animationId' = 0 /\ frameRequests' = {})
          /\ animationId = 0 =>
               /\ animationId' = 0 /\ frameRequests' = {}
               /\ overlay' = overlay
               /\ ret'.op = "tick" => ret'.val = "none"]_vars

\* C21 witness: a display refresh after destroy() and after a later drag of
\* the left marker drew nothing: the trimbar canvas is still blank.
C21_Witness ==
    /\ ret.op = "tick" /\ ret.val = "none"
    /\ animationId = 0 /\ frameRequests = {}
    /\ overlay = NoOverlay
    /\ trimbars.left.x > 0

\* C22: selecting a loaded pad makes its sample the visualized one, sets the
\* markers to that sample's stored leftX and rightX and changes no sample;
\* a pointer move or a reset changes no sample other than the visualized
\* one.  So a pad selected again shows its own last trim.
C22_EachSampleKeepsItsRegion ==
    [][/\ \A i \in Pads :
             (ret'.op = "selectPad" /\ ret'.arg = i /\ Playable(i)) =>
                /\ currentSample' = SampleAt(i)
                /\ trimbars'.left.x = objs[SampleAt(i)].leftX
                /\ trimbars'.right.x = objs[SampleAt(i)].rightX
                /\ objs' = objs
       /\ ret'.op \in {"mousemove", "mousedown", "mouseup", "mouseleave", "resetTrimbars"} =>
             \A o \in ObjIds \ {currentSample} : objs'[o] = objs[o]]_vars

\* C22 witness: pad 0 and pad 1 were trimmed differently; pad 0 has just
\* been selected again and the markers show its trim, not pad 1's.
C22_Witness ==
    /\ bank > 0
    /\ ret.op = "selectPad" /\ ret.arg = 0 /\ currentSample = SampleAt(0)
    /\ objs[SampleAt(0)].isLoaded /\ objs[SampleAt(1)].isLoaded
    /\ objs[SampleAt(0)].leftX > 0
    /\ objs[SampleAt(1)].leftX = 0 /\ objs[SampleAt(1)].rightX < canvasWidth
    /\ trimbars.left.x = objs[SampleAt(0)].leftX
    /\ trimbars.right.x = objs[SampleAt(0)].rightX

\* C23: the completion handler runs only for a voice that reached its
\* natural end, never for one that was stopped by stopSample, stopAll or
\* pre-emption, and after it has run the pad has no entry in the mapping.
C23_HandlerOnlyOnNaturalEnd ==
    [][\A v \in VoiceIds :
         (v \in endedQueue /\ v \notin endedQueue') =>
            /\ voices[v].state = "ended"
            /\ ~isPlaying(voices[v].pad)']_vars

\* C24: when a voice of pad i has ended naturally, whether or not its
\* completion handler has run yet, stopSample(i) and playSample(i) do not
\* raise, and afterwards the mapping has an entry for i only if that entry
\* is a voice of pad i that is sounding.
C24_StopAfterNaturalEndIsSafe ==
    [][\A i \in Pads :
         ( /\ ret'.op \in {"stopSample", "playSample"} /\ ret'.arg = i
           /\ \E v \in VoiceIds : voices[v].pad = i /\ voices[v].state = "ended" ) =>
            /\ ret'.val # "throw"
            /\ isPlaying(i)' =>
                  /\ voices'[activeSources'[i]].pad = i
                  /\ voices'[activeSources'[i]].state = "sounding"]_vars

\* C24 witness: stopSample has run on a pad whose mapped voice had ended
\* naturally and whose completion event is still waiting: the source was
\* disconnected and the entry is gone.
C24_Witness ==
    /\ ret.op = "stopSample" /\ ret.arg \in Pads /\ ~isPlaying(ret.arg)
    /\ \E v \in endedQueue :
          /\ voices[v].pad = ret.arg /\ voices[v].state = "ended"
          /\ ~voices[v].connected

\* C25: no trigger starts a voice of zero or negative duration: every
\* loaded sample of the bank has endTime - startTime > 0, so the duration
\* playSample reads for it is positive.
C25_TriggerDurationPositive ==
    /\ \A i \in Pads :
          Playable(i) => StartDuration(objs[SampleAt(i)]) > 0
    /\ (ret.op \in {"playSample", "handlePadClick"} /\ ret.val # "false") =>
          ret.dur > 0

\* C26: at most one side is selected in every reachable state.  On a
\* pointer move to m a side that was not selected becomes selected only if
\* m is less than HitDistance from its marker and the other side is not
\* selected when the side is tested (the left side is tested first, against
\* the right flag as the move found it; the right side second, against the
\* left flag as the move leaves it).  When both markers are within
\* HitDistance of m and neither side was selected, the left side is the one
\* selected.
C26_HitZonesExclusive ==
    /\ ~(trimbars.left.selected /\ trimbars.right.selected)
    /\ [][/\ ~(trimbars'.left.selected /\ trimbars'.right.selected)
          /\ ret'.op = "mousemove" =>
               /\ (~trimbars.left.selected /\ trimbars'.left.selected) =>
                     /\ Abs(ret'.arg - trimbars.left.x) < HitDistance
                     /\ ~trimbars.right.selected
               /\ (~trimbars.right.selected /\ trimbars'.right.selected) =>
                     /\ Abs(ret'.arg - trimbars.right.x) < HitDistance
                     /\ ~trimbars'.left.selected
               /\ ( /\ Abs(ret'.arg - trimbars.left.x) < HitDistance
                    /\ Abs(ret'.arg - trimbars.right.x) < HitDistance
                    /\ ~trimbars.left.selected /\ ~trimbars.right.selected ) =>
                     /\ trimbars'.left.selected
                     /\ ~trimbars'.right.selected
          /\ ret'.op # "mousemove" =>
               /\ trimbars'.left.selected = trimbars.left.selected
               /\ trimbars'.right.selected = trimbars.right.selected]_vars

\* C26 witness: a move has landed within HitDistance of both markers, which
\* stand at different pixels, and the left side alone is selected, with no
\* drag under way.
C26_Witness ==
    /\ ret.op = "mousemove"
    /\ trimbars.left.x # trimbars.right.x
    /\ Abs(ret.arg - trimbars.left.x) < HitDistance
    /\ Abs(ret.arg - trimbars.right.x) < HitDistance
    /\ trimbars.left.selected /\ ~trimbars.right.selected
    /\ ~trimbars.left.dragged /\ ~trimbars.right.dragged

\* C27: a side goes from not dragging to dragging only in a press event
\* that finds the side selected; a press that finds no side selected leaves
\* the trimbars as they are; a pointer move moves a marker only if its side
\* was dragging when the move arrived, so moves outside a drag change no
\* marker position.
C27_DragStartsOnPressOfSelectedSide ==
    [][/\ (~trimbars.left.dragged /\ trimbars'.left.dragged) =>
             (ret'.op = "mousedown" /\ trimbars.left.selected)
       /\ (~trimbars.right.dragged /\ trimbars'.right.dragged) =>
             (ret'.op = "mousedown" /\ trimbars.right.selected)
       /\ ( /\ ret'.op = "mousedown"
            /\ ~trimbars.left.selected /\ ~trimbars.right.selected ) =>
             trimbars' = trimbars
       /\ ret'.op = "mousedown" =>
             /\ trimbars'.left.x = trimbars.left.x
             /\ trimbars'.right.x = trimbars.right.x
             /\ objs' = objs
       /\ ret'.op = "mousemove" =>
             /\ ~trimbars.left.dragged => trimbars'.left.x = trimbars.left.x
             /\ ~trimbars.right.dragged => trimbars'.right.x = trimbars.right.x
             /\ (~trimbars.left.dragged /\ ~trimbars.right.dragged) => objs' = objs]_vars

\* C27 witness: with a sample visualized, a pointer move has just gone over
\* the selected right side, which no press has set dragging, and the marker
\* and the sample's region are still the full clip.
C27_Witness ==
    /\ currentSample # NoObj
    /\ ret.op = "mousemove" /\ ret.arg # trimbars.right.x
    /\ trimbars.right.selected /\ ~trimbars.right.dragged /\ ~trimbars.left.dragged
    /\ trimbars.left.x = 0 /\ trimbars.right.x = canvasWidth
    /\ objs[currentSample].leftX = 0 /\ objs[currentSample].rightX = canvasWidth

\* C28: a release, or the pointer leaving the canvas, takes a dragging side
\* to Idle: right after the event the side is neither dragging nor selected,
\* and from then on a pointer move does not move its marker while the side
\* is not dragging again.
C28_ReleaseMakesSideIdle ==
    [][/\ (ret'.op \in {"mouseup", "mouseleave"} /\ trimbars.left.dragged) =>
             (~trimbars'.left.dragged /\ ~trimbars'.left.selected)
       /\ (ret'.op \in {"mouseup", "mouseleave"} /\ trimbars.right.dragged) =>
             (~trimbars'.right.dragged /\ ~trimbars'.right.selected)
       /\ (ret'.op = "mousemove" /\ ~trimbars.left.dragged) =>
             trimbars'.left.x = trimbars.left.x
       /\ (ret'.op = "mousemove" /\ ~trimbars.right.dragged) =>
             trimbars'.right.x = trimbars.right.x]_vars

\* C29: a pointer move that arrives while a side is dragging and a sample
\* is visualized calls the change callback exactly once in that event, and
\* the sample the callback is given already has the pixels of the moved
\* markers and the start and end times computed from them; a move that
\* finds no side dragging calls it not at all.
C29_OneNotificationPerDragMove ==
    [][ret'.op = "mousemove" =>
         IF (trimbars.left.dragged \/ trimbars.right.dragged) /\ currentSample # NoObj
         THEN /\ Len(trimbarChanges') = 1
              /\ trimbarChanges'[1] = objs'[currentSample]
              /\ trimbarChanges'[1].leftX = trimbars'.left.x
              /\ trimbarChanges'[1].rightX = trimbars'.right.x
              /\ trimbarChanges'[1].startTime =
                    (trimbars'.left.x * objs[currentSample].duration) \div canvasWidth
              /\ trimbarChanges'[1].endTime =
                    (trimbars'.right.x * objs[currentSample].duration) \div canvasWidth
         ELSE trimbarChanges' = << >>]_vars

\* C29 witness: a move has dragged the left marker of a visualized sample
\* to a new pixel and the callback got the sample once, with a start time
\* after 0.
C29_Witness ==
    /\ ret.op = "mousemove" /\ trimbars.left.dragged /\ currentSample # NoObj
    /\ Len(trimbarChanges) = 1
    /\ trimbarChanges[1].leftX = trimbars.left.x
    /\ trimbarChanges[1].leftX > 0 /\ trimbarChanges[1].startTime > 0

\* C30: once calculatePeaks has run on a buffer of one or two channels,
\* the entry of pixel i (counted from 0) times the number of channels is the
\* sum over the channels of the largest absolute amplitude among the frames
\* start, start + stride, ... below min(start + segmentSize, length), with
\* segmentSize = ceil(length / width), start = i * segmentSize and
\* stride = max(1, floor(segmentSize / 10)), and 0 where no frame is picked:
\* the entry is the average of the channel peaks, not their sum.
C30_PeaksAreStridedChannelAverage ==
    ret.op = "render" =>
        LET width == canvasWidth
            channels == Len(buffer.data)
            segmentSize == CHOOSE n \in 0..buffer.length :
                              n * width >= buffer.length /\ (n - 1) * width < buffer.length
            stride == IF segmentSize \div 10 >= 1 THEN segmentSize \div 10 ELSE 1
            picked(i) == {p \in 0..(buffer.length - 1) :
                            /\ p >= i * segmentSize /\ p < i * segmentSize + segmentSize
                            /\ (p - i * segmentSize) % stride = 0}
            heard(c, i) == {Abs(buffer.data[c][p + 1]) : p \in picked(i)}
            top(c, i) == IF heard(c, i) = {} THEN 0
                         ELSE CHOOSE a \in heard(c, i) : \A b \in heard(c, i) : a >= b
        IN /\ channels \in {1, 2}
           /\ Len(peaks) = width
           /\ \A i \in 0..(width - 1) :
                 peaks[i + 1] * channels =
                    top(1, i) + (IF channels = 2 THEN top(2, i) ELSE 0)

\* C30 witness: a buffer of 20 frames was reduced to one pixel, so the
\* stride is 2, and its only non-zero frame, at an odd position, was stepped
\* over: the peak is 0.
C30_Witness ==
    /\ ret.op = "render"
    /\ canvasWidth = 1 /\ buffer.length = LongFrames
    /\ buffer.data[1][2] # 0
    /\ peaks = <<0>>

\* C31: every sounding voice is the one the active mapping holds for its
\* pad, in every interleaving of triggers, stops and end events; the end
\* event of a voice never takes the entry of another voice away.
C31_SoundingVoiceIsRegistered ==
    /\ \A v \in VoiceIds :
          voices[v].state = "sounding" => activeSources[voices[v].pad] = v
    /\ [][\A v \in VoiceIds, i \in Pads :
            ( /\ v \in endedQueue /\ v \notin endedQueue'
              /\ activeSources[i] # 0 /\ activeSources[i] # v ) =>
               activeSources'[i] = activeSources[i]]_vars

\* C32: whenever the visualizer has a current sample, the left and right
\* markers stand at that sample's stored leftX and rightX, after every
\* event: pad selection (also one made while a side is dragging), drag
\* move, release and reset.
C32_MarkersEqualSamplePixels ==
    currentSample # NoObj =>
        /\ trimbars.left.x = objs[currentSample].leftX
        /\ trimbars.right.x = objs[currentSample].rightX

\* C32 witness: while the left side was dragging, with pad 0's marker
\* dragged off pixel 0, pad 1 was selected: the markers now stand at pad
\* 1's untouched pixels and the side is still dragging.
C32_Witness ==
    /\ bank > 0
    /\ ret.op = "selectPad" /\ ret.arg = 1 /\ currentSample = SampleAt(1)
    /\ trimbars.left.dragged
    /\ objs[SampleAt(0)].isLoaded /\ objs[SampleAt(0)].leftX > 0
    /\ objs[SampleAt(1)].leftX = 0
    /\ trimbars.left.x = 0

\* C33: the sample the visualizer shows is always the engine's sample at
\* the selected pad index, and a pointer event or a reset never changes a
\* Sample object of a bank that has been replaced.
C33_VisualizedSampleIsEnginesSample ==
    [][/\ currentSample' # NoObj =>
             /\ selectedSampleIndex' # NoIndex
             /\ currentSample' = SampleAt(selectedSampleIndex)'
       /\ ret'.op \in {"mousemove", "mousedown", "mouseup", "mouseleave", "resetTrimbars"} =>
             \A o \in ObjIds : o[1] # bank => objs'[o] = objs[o]]_vars

\* C34: also when a bank is loaded over one that has not settled, the
\* status line written when an entry settles counts, out of the entries of
\* that entry's bank, the loaded samples of the same bank, between 0 and
\* the total; an entry reported without error leaves its pad with a loaded
\* sample in the bank the engine holds; and a loadSamples call returns the
\* bank it created.
C34_OverlappingLoadsStayConsistent ==
    [][/\ \A o \in ObjIds :
            (promises[o] = "pending" /\ promises'[o] # "pending") =>
               /\ status'.kind \in {"loading", "ready"} =>
                     /\ status'.loaded = LoadedCount(objs', o[1])
                     /\ 0 <= status'.loaded /\ status'.loaded <= status'.total
               /\ ( /\ Len(callbacks'[o]) > Len(callbacks[o])
                    /\ callbacks'[o][Len(callbacks'[o])].error = "null" ) =>
                     Playable(o[2])'
       /\ \A b \in Banks : resolved'[b] # 0 => resolved'[b] = b]_vars

\* C35: from every reachable state with a visualized sample some sequence
\* of pointer moves, presses and releases moves the right marker, and some
\* such sequence moves the left marker.  The offsets next to the markers
\* and the canvas edges are tried first, then every offset the pointer can
\* have.
C35_MarkersNeverStuck ==
    currentSample # NoObj =>
        LET near == {x \in AllPointerXs(canvasWidth) :
                        \/ x \in {0, canvasWidth, canvasWidth \div 2}
                        \/ \E d \in {0, HitDistance - 1, 1 - HitDistance} :
                              x \in {trimbars.left.x + d, trimbars.right.x + d}}
            rightMoves(xs) == \E t \in PointerReach({trimbars}, xs, canvasWidth) :
                                 t.right.x # trimbars.right.x
            leftMoves(xs) == \E t \in PointerReach({trimbars}, xs, canvasWidth) :
                                t.left.x # trimbars.left.x
        IN /\ rightMoves(near) \/ rightMoves(AllPointerXs(canvasWidth))
           /\ leftMoves(near) \/ leftMoves(AllPointerXs(canvasWidth))
====
